---- MODULE Spec2Model ----
(***************************************************************************)
(* A model of package seawater (src/seawater.go): the UNESCO 1983 / EOS-80 *)
(* functions sw_smow, sw_T68conv, sw_T90conv, sw_dens0, sw_seck, sw_svel,  *)
(* sw_dpth, sw_adtg, sw_ptmp, sw_dens, sw_sigmat, sw_sigmateta, sw_svan    *)
(* and sw_sal, and a caller that invokes them one call at a time.          *)
(*                                                                         *)
(* The functions compute on Go float64 values.  The model computes on the  *)
(* same values: an IEEE-754 binary64 number is a record holding its sign,  *)
(* its 53-bit significand and its binary exponent, and +, -, *, / and      *)
(* math.Sqrt round to nearest, ties to even, as the amd64 build does (no   *)
(* fused multiply-add).  TLC's integers are 32 bits wide, so a significand *)
(* is held as a sequence of 15-bit limbs.                                  *)
(***************************************************************************)
EXTENDS Integers, Sequences, FiniteSets, TLC

(***************************************************************************)
(* Natural numbers of any size: little-endian sequences of limbs in base   *)
(* LimbBase, without leading zero limbs (zero is the empty sequence).      *)
(***************************************************************************)
LimbBits == 15

LimbBase == 32768

Pow2(k) == 2 ^ k

RECURSIVE BigNorm(_)
BigNorm(a) ==
  IF a = <<>> THEN <<>>
  ELSE IF a[Len(a)] # 0 THEN a
  ELSE BigNorm(SubSeq(a, 1, Len(a) - 1))

BigOfInt(n) ==
  IF n = 0 THEN <<>>
  ELSE IF n < LimbBase THEN <<n>>
  ELSE IF n < LimbBase * LimbBase THEN <<n % LimbBase, n \div LimbBase>>
  ELSE <<n % LimbBase, (n \div LimbBase) % LimbBase, n \div (LimbBase * LimbBase)>>

Limb(a, i) == IF i >= 1 /\ i <= Len(a) THEN a[i] ELSE 0

RECURSIVE BigAddFrom(_, _, _, _)
BigAddFrom(a, b, i, carry) ==
  IF i > Len(a) /\ i > Len(b)
  THEN IF carry = 0 THEN <<>> ELSE <<carry>>
  ELSE LET s == Limb(a, i) + Limb(b, i) + carry
       IN  <<s % LimbBase>> \o BigAddFrom(a, b, i + 1, s \div LimbBase)

BigAdd(a, b) == BigAddFrom(a, b, 1, 0)

\* a - b for a >= b
RECURSIVE BigSubFrom(_, _, _, _)
BigSubFrom(a, b, i, borrow) ==
  IF i > Len(a) THEN <<>>
  ELSE LET d == Limb(a, i) - Limb(b, i) - borrow
       IN  IF d < 0
           THEN <<d + LimbBase>> \o BigSubFrom(a, b, i + 1, 1)
           ELSE <<d>> \o BigSubFrom(a, b, i + 1, 0)

BigSub(a, b) == BigNorm(BigSubFrom(a, b, 1, 0))

\* -1, 0 or 1 as a < b, a = b or a > b
RECURSIVE BigCmpFrom(_, _, _)
BigCmpFrom(a, b, i) ==
  IF i = 0 THEN 0
  ELSE IF a[i] < b[i] THEN -1
  ELSE IF a[i] > b[i] THEN 1
  ELSE BigCmpFrom(a, b, i - 1)

BigCmp(a, b) ==
  IF Len(a) < Len(b) THEN -1
  ELSE IF Len(a) > Len(b) THEN 1
  ELSE BigCmpFrom(a, b, Len(a))

\* a * k for 0 <= k < LimbBase
RECURSIVE BigMulSmallFrom(_, _, _, _)
BigMulSmallFrom(a, k, i, carry) ==
  IF i > Len(a)
  THEN IF carry = 0 THEN <<>> ELSE <<carry>>
  ELSE LET p == a[i] * k + carry
       IN  <<p % LimbBase>> \o BigMulSmallFrom(a, k, i + 1, p \div LimbBase)

BigMulSmall(a, k) == IF k = 0 THEN <<>> ELSE BigMulSmallFrom(a, k, 1, 0)

RECURSIVE BigMulFrom(_, _, _)
BigMulFrom(a, b, i) ==
  IF i > Len(a) THEN <<>>
  ELSE BigAdd(BigMulSmall(b, a[i]),
              LET rest == BigMulFrom(a, b, i + 1)
              IN  IF rest = <<>> THEN <<>> ELSE <<0>> \o rest)

BigMul(a, b) == IF a = <<>> \/ b = <<>> THEN <<>> ELSE BigMulFrom(a, b, 1)

\* the number of bits of a limb, and of a number
BitLen(x) == IF x = 0 THEN 0 ELSE CHOOSE k \in 1..LimbBits : Pow2(k - 1) <= x /\ x < Pow2(k)

BigLen(a) == IF a = <<>> THEN 0 ELSE LimbBits * (Len(a) - 1) + BitLen(a[Len(a)])

\* a * 2^k
BigShl(a, k) ==
  IF a = <<>> THEN <<>>
  ELSE [i \in 1..(k \div LimbBits) |-> 0] \o BigMulSmall(a, Pow2(k % LimbBits))

\* a \div 2^k
BigShr(a, k) ==
  LET q == k \div LimbBits
      r == k % LimbBits
  IN  IF q >= Len(a) THEN <<>>
      ELSE BigNorm([i \in 1..(Len(a) - q) |->
                      (a[i + q] \div Pow2(r))
                      + (Limb(a, i + q + 1) % Pow2(r)) * Pow2(LimbBits - r)])

\* bit k of a (bit 0 is the lowest)
BigBit(a, k) == (Limb(a, (k \div LimbBits) + 1) \div Pow2(k % LimbBits)) % 2

\* whether one of the k lowest bits of a is set
BigLowBits(a, k) ==
  \/ \E i \in 1..(k \div LimbBits) : Limb(a, i) # 0
  \/ Limb(a, (k \div LimbBits) + 1) % Pow2(k % LimbBits) # 0

BigOdd(a) == a # <<>> /\ a[1] % 2 = 1

(***************************************************************************)
(* Long division, one limb of the quotient at a time (Knuth's algorithm D: *)
(* the divisor is shifted until its top limb has its top bit set, so that  *)
(* the estimate of a quotient limb from the top limbs is at most 2 too     *)
(* large).                                                                 *)
(***************************************************************************)
RECURSIVE QuotLimb(_, _, _)
QuotLimb(rem, b, qhat) ==
  IF BigCmp(BigMulSmall(b, qhat), rem) <= 0 THEN qhat ELSE QuotLimb(rem, b, qhat - 1)

\* <<quotient, remainder>> of a by b, for b's top limb >= LimbBase / 2: the limbs
\* of a are brought down from the top, one at a time, into the remainder rem
RECURSIVE BigDivFrom(_, _, _, _, _)
BigDivFrom(a, b, i, quot, rem) ==
  IF i = 0 THEN <<quot, rem>>
  ELSE LET r1   == BigNorm(<<a[i]>> \o rem)
           n    == Len(b)
           top  == Limb(r1, n + 1) * LimbBase + Limb(r1, n)
           est  == top \div b[n]
           qhat == IF Len(r1) < n THEN 0
                   ELSE QuotLimb(r1, b, IF est > LimbBase - 1 THEN LimbBase - 1 ELSE est)
           r2   == IF qhat = 0 THEN r1 ELSE BigSub(r1, BigMulSmall(b, qhat))
       IN  IF Len(r2) > n THEN <<>>
           ELSE BigDivFrom(a, b, i - 1, <<qhat>> \o quot, r2)

\* <<a \div b, whether a % b # 0>> for b # 0
BigDiv(a, b) ==
  LET s  == LimbBits - BitLen(b[Len(b)])
      qr == BigDivFrom(BigShl(a, s), BigShl(b, s), Len(BigShl(a, s)), <<>>, <<>>)
  IN  <<BigNorm(qr[1]), qr[2] # <<>>>>

\* <<floor of the square root of a, whether a is not a square>> (Newton's iteration
\* from above, which decreases until it reaches the root)
RECURSIVE BigSqrtFrom(_, _)
BigSqrtFrom(a, x) ==
  LET y == BigShr(BigAdd(x, BigDiv(a, x)[1]), 1)
  IN  IF BigCmp(y, x) >= 0 THEN x ELSE BigSqrtFrom(a, y)

BigSqrt(a) ==
  IF a = <<>> THEN <<<<>>, FALSE>>
  ELSE LET r == BigSqrtFrom(a, BigShl(<<1>>, (BigLen(a) + 1) \div 2))
       IN  <<r, BigMul(r, r) # a>>

RECURSIVE BigPow10(_)
BigPow10(k) == IF k = 0 THEN <<1>> ELSE BigMulSmall(BigPow10(k - 1), 10)

(***************************************************************************)
(* float64.  A value is a record: cls is "num", "inf" or "nan"; neg is the *)
(* sign; a finite value is sig * 2^exp, with sig of exactly Precision bits *)
(* (fewer only for a subnormal, whose exp is MinExp).  Zero has sig <<>>   *)
(* and exp 0.  Every value has one representation, so two values are the   *)
(* same float64 bit pattern exactly when the records are equal (all NaNs   *)
(* are taken as one).                                                      *)
(***************************************************************************)
Precision == 53

MinExp == -1074

MaxExp == 971

FZero(neg) == [cls |-> "num", neg |-> neg, sig |-> <<>>, exp |-> 0]

FInf(neg) == [cls |-> "inf", neg |-> neg, sig |-> <<>>, exp |-> 0]

FNaN == [cls |-> "nan", neg |-> FALSE, sig |-> <<>>, exp |-> 0]

IsZero(a) == a.cls = "num" /\ a.sig = <<>>

IsFinite(a) == a.cls = "num"

\* The float64 nearest to sig * 2^exp (plus, with sticky, a fraction of 2^exp that is
\* not 0), ties to even.  With sticky, sig has more than Precision + 1 bits.
FRound(neg, sig, exp, sticky) ==
  IF sig = <<>> THEN FZero(neg)
  ELSE LET want == exp + BigLen(sig) - Precision
           e1   == IF want < MinExp THEN MinExp ELSE want
           sh   == e1 - exp
           q    == BigShr(sig, sh)
           up   == /\ BigBit(sig, sh - 1) = 1
                   /\ (BigLowBits(sig, sh - 1) \/ sticky \/ BigOdd(q))
           m    == IF sh <= 0 THEN BigShl(sig, 0 - sh)
                   ELSE IF up THEN BigAdd(q, <<1>>) ELSE q
           over == BigLen(m) > Precision
           m2   == IF over THEN BigShr(m, 1) ELSE m
           e2   == IF over THEN e1 + 1 ELSE e1
       IN  IF m2 = <<>> THEN FZero(neg)
           ELSE IF e2 > MaxExp THEN FInf(neg)
           ELSE [cls |-> "num", neg |-> neg, sig |-> m2, exp |-> e2]

FNeg(a) == IF a.cls = "nan" THEN a ELSE [a EXCEPT !.neg = ~a.neg]

FAbs(a) == IF a.cls = "nan" THEN a ELSE [a EXCEPT !.neg = FALSE]

\* the exact sum of two finite values that are not 0, rounded
FAddNum(a, b) ==
  IF a.exp - b.exp > 64 THEN a
  ELSE IF b.exp - a.exp > 64 THEN b
  ELSE LET e  == IF a.exp < b.exp THEN a.exp ELSE b.exp
           ma == BigShl(a.sig, a.exp - e)
           mb == BigShl(b.sig, b.exp - e)
           c  == BigCmp(ma, mb)
       IN  IF a.neg = b.neg THEN FRound(a.neg, BigAdd(ma, mb), e, FALSE)
           ELSE IF c = 0 THEN FZero(FALSE)
           ELSE IF c > 0 THEN FRound(a.neg, BigSub(ma, mb), e, FALSE)
           ELSE FRound(b.neg, BigSub(mb, ma), e, FALSE)

\* x + y
FAdd(a, b) ==
  IF a.cls = "nan" \/ b.cls = "nan" THEN FNaN
  ELSE IF a.cls = "inf" THEN (IF b.cls = "inf" /\ a.neg # b.neg THEN FNaN ELSE a)
  ELSE IF b.cls = "inf" THEN b
  ELSE IF IsZero(a) /\ IsZero(b) THEN FZero(a.neg /\ b.neg)
  ELSE IF IsZero(a) THEN b
  ELSE IF IsZero(b) THEN a
  ELSE FAddNum(a, b)

\* x - y
FSub(a, b) == FAdd(a, FNeg(b))

\* x * y
FMul(a, b) ==
  IF a.cls = "nan" \/ b.cls = "nan" THEN FNaN
  ELSE IF a.cls = "inf" \/ b.cls = "inf"
       THEN (IF IsZero(a) \/ IsZero(b) THEN FNaN ELSE FInf(a.neg # b.neg))
  ELSE IF IsZero(a) \/ IsZero(b) THEN FZero(a.neg # b.neg)
  ELSE FRound(a.neg # b.neg, BigMul(a.sig, b.sig), a.exp + b.exp, FALSE)

\* the quotient of the naturals n and d (d # 0), times 2^exp, rounded
FRoundDiv(neg, n, d, exp) ==
  LET want == Precision + 3 + BigLen(d) - BigLen(n)
      k    == IF want < 0 THEN 0 ELSE want
      qr   == BigDiv(BigShl(n, k), d)
  IN  FRound(neg, qr[1], exp - k, qr[2])

\* x / y
FDiv(a, b) ==
  IF a.cls = "nan" \/ b.cls = "nan" THEN FNaN
  ELSE IF a.cls = "inf" THEN (IF b.cls = "inf" THEN FNaN ELSE FInf(a.neg # b.neg))
  ELSE IF b.cls = "inf" THEN FZero(a.neg # b.neg)
  ELSE IF IsZero(b) THEN (IF IsZero(a) THEN FNaN ELSE FInf(a.neg # b.neg))
  ELSE IF IsZero(a) THEN FZero(a.neg # b.neg)
  ELSE FRoundDiv(a.neg # b.neg, a.sig, b.sig, a.exp - b.exp)

\* math.Sqrt(x), which is correctly rounded
FSqrt(a) ==
  IF a.cls = "nan" THEN FNaN
  ELSE IF IsZero(a) THEN a
  ELSE IF a.neg THEN FNaN
  ELSE IF a.cls = "inf" THEN a
  ELSE LET want == 2 * Precision + 4 - BigLen(a.sig)
           k0   == IF want < 0 THEN 0 ELSE want
           k    == k0 + ((a.exp - k0) % 2)
           r    == BigSqrt(BigShl(a.sig, k))
       IN  FRound(FALSE, r[1], (a.exp - k) \div 2, r[2])

\* -1, 0, 1 as |a| <, =, > |b|, for finite a and b
MagCmp(a, b) ==
  IF IsZero(a) THEN (IF IsZero(b) THEN 0 ELSE -1)
  ELSE IF IsZero(b) THEN 1
  ELSE IF a.exp < b.exp THEN -1
  ELSE IF a.exp > b.exp THEN 1
  ELSE BigCmp(a.sig, b.sig)

\* -1, 0, 1 as a <, =, > b, for a and b not NaN
FCmp(a, b) ==
  IF IsZero(a) /\ IsZero(b) THEN 0
  ELSE IF a.neg # b.neg THEN (IF a.neg THEN -1 ELSE 1)
  ELSE LET c == IF a.cls = "inf" THEN (IF b.cls = "inf" THEN 0 ELSE 1)
                ELSE IF b.cls = "inf" THEN -1
                ELSE MagCmp(a, b)
       IN  IF a.neg THEN 0 - c ELSE c

\* x == y, x < y, x <= y: false when an operand is NaN
FEq(a, b) == a.cls # "nan" /\ b.cls # "nan" /\ FCmp(a, b) = 0

FLt(a, b) == a.cls # "nan" /\ b.cls # "nan" /\ FCmp(a, b) < 0

FLe(a, b) == a.cls # "nan" /\ b.cls # "nan" /\ FCmp(a, b) <= 0

\* the float64 of an integer
FInt(n) == IF n < 0 THEN FRound(TRUE, BigOfInt(0 - n), 0, FALSE)
           ELSE FRound(FALSE, BigOfInt(n), 0, FALSE)

\* the float64 of the decimal literal n * 10^k, as the Go compiler rounds a constant
FDec(n, k) ==
  LET neg == n < 0
      m   == BigOfInt(IF neg THEN 0 - n ELSE n)
  IN  IF k >= 0 THEN FRound(neg, BigMul(m, BigPow10(k)), 0, FALSE)
      ELSE IF m = <<>> THEN FZero(FALSE)
      ELSE FRoundDiv(neg, m, BigPow10(0 - k), 0)

\* the natural written in decimal as groups of 9 digits, most significant first
RECURSIVE BigOfDec(_)
BigOfDec(groups) ==
  IF groups = <<>> THEN <<>>
  ELSE BigAdd(BigMul(BigOfDec(SubSeq(groups, 1, Len(groups) - 1)), BigOfInt(1000000000)),
              BigOfInt(groups[Len(groups)]))

\* the float64 of a positive decimal literal of many digits: groups * 10^k, k <= 0
FDecBig(groups, k) == FRoundDiv(FALSE, BigOfDec(groups), BigPow10(0 - k), 0)

\* the Go operators on float64 values
a (+) b == FAdd(a, b)

a (-) b == FSub(a, b)

a (.) b == FMul(a, b)

a (/) b == FDiv(a, b)

(***************************************************************************)
(* package math.  math.Sin and math.Pow are library code; they are given   *)
(* here by their values: the float64 nearest to the sine on the arguments  *)
(* the model uses, and the float64 nearest to x^(n/2).                     *)
(***************************************************************************)
\* math.Pi, to 27 digits
Pi == <<314159265, 358979323, 846264338>>

\* <<x, math.Sin(x)>> for x = LAT * DEG2RAD, LAT = 4, 15, 30, 45, 60, 75, 90
SinTable ==
  { <<FDecBig(<<6, 981317007, 977318000>>, -20), FDecBig(<<6, 975647374, 412530000>>, -20)>>,
    <<FDecBig(<<26, 179938779, 914940000>>, -20), FDecBig(<<25, 881904510, 252074000>>, -20)>>,
    <<FDecBig(<<52, 359877559, 829880000>>, -20), FDecBig(<<49, 999999999, 999994000>>, -20)>>,
    <<FDecBig(<<78, 539816339, 744830000>>, -20), FDecBig(<<70, 710678118, 654750000>>, -20)>>,
    <<FDecBig(<<104, 719755119, 659760000>>, -20), FDecBig(<<86, 602540378, 443860000>>, -20)>>,
    <<FDecBig(<<130, 899693899, 574720000>>, -20), FDecBig(<<96, 592582628, 906830000>>, -20)>>,
    <<FDecBig(<<157, 79632679, 489660000>>, -20), FInt(1)>> }

\* math.Sin(x): the sign is set aside, the sine of |x| taken, the sign put back
Sin(x) ==
  IF x.cls = "nan" \/ IsZero(x) THEN x
  ELSE IF x.cls = "inf" THEN FNaN
  ELSE LET e == CHOOSE e \in SinTable : e[1] = FAbs(x)
       IN  IF x.neg THEN FNeg(e[2]) ELSE e[2]

\* math.Abs(x)
Abs(x) == FAbs(x)

\* math.Exp(0.5 * math.Log(x)) for x > 0, taken as the float64 nearest to the
\* square root of x
ExpHalfLog(x) == FSqrt(x)

\* x^yi for a natural yi, by squaring, as math.Pow's loop over the bits of yi
RECURSIVE PowLoop(_, _, _)
PowLoop(a1, x1, i) ==
  IF i = 0 THEN a1
  ELSE PowLoop(IF i % 2 = 1 THEN a1 (.) x1 ELSE a1, x1 (.) x1, i \div 2)

\* math.Pow(x, y) for y = n/2, n = 0, 1, 2, ...
Pow(x, y) ==
  LET n  == CHOOSE n \in 0..10 : FInt(n) = y (.) FInt(2)
      yi == n \div 2
      yf == n % 2
  IN  IF n = 0 \/ FEq(x, FInt(1)) THEN FInt(1)
      ELSE IF n = 2 THEN x
      ELSE IF x.cls = "nan" THEN FNaN
      ELSE IF IsZero(x) THEN (IF yf = 0 /\ yi % 2 = 1 THEN x ELSE FZero(FALSE))
      ELSE IF x.cls = "inf"
           THEN (IF x.neg /\ yf = 0 /\ yi % 2 = 1 THEN x ELSE FInf(FALSE))
      ELSE IF n = 1 THEN FSqrt(x)
      ELSE IF yf # 0 /\ x.neg THEN FNaN
      ELSE PowLoop(IF yf # 0 THEN ExpHalfLog(x) ELSE FInt(1), x, yi)

(***************************************************************************)
(* The functions of seawater.go.  Each function's constants are a record   *)
(* of float64 values; a field named n<digits> is a literal of the code     *)
(* (n1_00024 is 1.00024).  An expression is evaluated in Go's order: * and *)
(* / before + and -, and from left to right.                               *)
(***************************************************************************)
smow_k ==
  [ a0 |-> FDec(999842594, -6),   \* 999.842594
    a1 |-> FDec(6793952, -8),     \* 6.793952e-2
    a2 |-> FDec(-909529, -8),     \* -9.095290e-3
    a3 |-> FDec(1001685, -10),    \* 1.001685e-4
    a4 |-> FDec(-1120083, -12),   \* -1.120083e-6
    a5 |-> FDec(6536332, -15) ]   \* 6.536332e-9

sw_smow(T) ==
  LET k == smow_k
  IN  k.a0 (+) (k.a1 (+) (k.a2 (+) (k.a3 (+) (k.a4 (+) k.a5 (.) T) (.) T) (.) T) (.) T) (.) T

n1_00024 == FDec(100024, -5)

\* a variant that divides where sw_T68conv multiplies
sw_T68conv_divided(T90) == T90 (/) n1_00024

sw_T68conv(T90) == T90 (.) n1_00024

T90conv_k ==
  [ n4_4em6 |-> FDec(44, -7),     \* 4.4e-6
    n100    |-> FInt(100) ]

\* the error value sw_T90conv constructs: "" when it constructs none
T90conv_error(t_type) ==
  IF t_type = "T68" \/ t_type = "T48" THEN ""
  ELSE "Unrecognized temperature type.  Try \"T68\" or \"T48\""

\* a variant whose result variable starts as the input: T90 := t
sw_T90conv_passthrough(t, t_type) ==
  LET k == T90conv_k
  IN  IF t_type = "T68" THEN t (/) n1_00024
      ELSE IF t_type = "T48" THEN (t (-) (k.n4_4em6 (.) t) (.) (k.n100 (-) t)) (/) n1_00024
      ELSE t

\* var T90 float64 is 0 until a branch assigns it
sw_T90conv(t, t_type) ==
  LET k == T90conv_k
  IN  IF t_type = "T68" THEN t (/) n1_00024
      ELSE IF t_type = "T48" THEN (t (-) (k.n4_4em6 (.) t) (.) (k.n100 (-) t)) (/) n1_00024
      ELSE FZero(FALSE)

dens0_k ==
  [ b0 |-> FDec(824493, -6),      \* 8.24493e-1
    b1 |-> FDec(-40899, -7),      \* -4.0899e-3
    b2 |-> FDec(76438, -9),       \* 7.6438e-5
    b3 |-> FDec(-82467, -11),     \* -8.2467e-7
    b4 |-> FDec(53875, -13),      \* 5.3875e-9
    c0 |-> FDec(-572466, -8),     \* -5.72466e-3
    c1 |-> FDec(10227, -8),       \* +1.0227e-4
    c2 |-> FDec(-16546, -10),     \* -1.6546e-6
    d0 |-> FDec(48314, -8) ]      \* 4.8314e-4

sw_dens0(S, T) ==
  LET k == dens0_k
  IN  sw_smow(T)
      (+) (k.b0 (+) (k.b1 (+) (k.b2 (+) (k.b3 (+) k.b4 (.) T) (.) T) (.) T) (.) T) (.) S
      (+) (k.c0 (+) (k.c1 (+) k.c2 (.) T) (.) T) (.) S (.) FSqrt(S)
      (+) k.d0 (.) S (.) S

seck_k ==
  [ n10 |-> FInt(10),
    h3 |-> FDec(-577905, -12),    \* -5.77905E-7
    h2 |-> FDec(116092, -9),      \* +1.16092E-4
    h1 |-> FDec(143713, -8),      \* +1.43713E-3
    h0 |-> FDec(3239908, -6),     \* +3.239908
    k2 |-> FDec(52787, -12),      \* 5.2787E-8
    k1 |-> FDec(-612293, -11),    \* -6.12293E-6
    k0 |-> FDec(850935, -10),     \* +8.50935E-5
    e4 |-> FDec(-5155288, -11),   \* -5.155288E-5
    e3 |-> FDec(1360477, -8),     \* +1.360477E-2
    e2 |-> FDec(-2327105, -6),    \* -2.327105
    e1 |-> FDec(1484206, -4),     \* +148.4206
    e0 |-> FDec(1965221, -2),     \* 19652.21
    j0 |-> FDec(191075, -9),      \* 1.91075E-4
    i2 |-> FDec(-16078, -10),     \* -1.6078E-6
    i1 |-> FDec(-10981, -9),      \* -1.0981E-5
    i0 |-> FDec(22838, -7),       \* 2.2838E-3
    m2 |-> FDec(91697, -14),      \* 9.1697E-10
    m1 |-> FDec(20816, -12),      \* +2.0816E-8
    m0 |-> FDec(-99348, -11),     \* -9.9348E-7
    f3 |-> FDec(-6167, -8),       \* -6.1670E-5
    f2 |-> FDec(109987, -7),      \* +1.09987E-2
    f1 |-> FDec(-603459, -6),     \* -0.603459
    f0 |-> FDec(546746, -4),      \* +54.6746
    g2 |-> FDec(-53009, -8),      \* -5.3009E-4
    g1 |-> FDec(16483, -6),       \* +1.6483E-2
    g0 |-> FDec(7944, -5) ]       \* +7.944E-2

sw_seck(S, T, P0) ==
  LET k  == seck_k
      P  == P0 (/) k.n10
      AW == k.h0 (+) (k.h1 (+) (k.h2 (+) k.h3 (.) T) (.) T) (.) T
      BW == k.k0 (+) (k.k1 (+) k.k2 (.) T) (.) T
      KW == k.e0 (+) (k.e1 (+) (k.e2 (+) (k.e3 (+) k.e4 (.) T) (.) T) (.) T) (.) T
      SR == FSqrt(S)
      A  == AW (+) (k.i0 (+) (k.i1 (+) k.i2 (.) T) (.) T (+) k.j0 (.) SR) (.) S
      B  == BW (+) (k.m0 (+) (k.m1 (+) k.m2 (.) T) (.) T) (.) S
      K0 == KW (+) (k.f0 (+) (k.f1 (+) (k.f2 (+) k.f3 (.) T) (.) T) (.) T
                    (+) (k.g0 (+) (k.g1 (+) k.g2 (.) T) (.) T) (.) SR) (.) S
  IN  K0 (+) (A (+) B (.) P) (.) P

svel_k ==
  [ n10 |-> FInt(10),
    c00 |-> FDec(1402388, -3),    \* 1402.388
    c01 |-> FDec(503711, -5),     \* 5.03711
    c02 |-> FDec(-580852, -7),    \* -5.80852e-2
    c03 |-> FDec(3342, -7),       \* 3.3420e-4
    c04 |-> FDec(-1478, -9),      \* -1.47800e-6
    c05 |-> FDec(31464, -13),     \* 3.1464e-9
    c10 |-> FDec(153563, -6),     \* 0.153563
    c11 |-> FDec(68982, -8),      \* 6.8982e-4
    c12 |-> FDec(-81788, -10),    \* -8.1788e-6
    c13 |-> FDec(13621, -11),     \* 1.3621e-7
    c14 |-> FDec(-61185, -14),    \* -6.1185e-10
    c20 |-> FDec(3126, -8),       \* 3.1260e-5
    c21 |-> FDec(-17107, -10),    \* -1.7107e-6
    c22 |-> FDec(25974, -12),     \* 2.5974e-8
    c23 |-> FDec(-25335, -14),    \* -2.5335e-10
    c24 |-> FDec(10405, -16),     \* 1.0405e-12
    c30 |-> FDec(-97729, -13),    \* -9.7729e-9
    c31 |-> FDec(38504, -14),     \* 3.8504e-10
    c32 |-> FDec(-23643, -16),    \* -2.3643e-12
    a00 |-> FDec(1389, -3),       \* 1.389
    a01 |-> FDec(-1262, -5),      \* -1.262e-2
    a02 |-> FDec(7164, -8),       \* 7.164e-5
    a03 |-> FDec(2006, -9),       \* 2.006e-6
    a04 |-> FDec(-321, -10),      \* -3.21e-8
    a10 |-> FDec(94742, -9),      \* 9.4742e-5
    a11 |-> FDec(-1258, -8),      \* -1.2580e-5
    a12 |-> FDec(-64885, -12),    \* -6.4885e-8
    a13 |-> FDec(10507, -12),     \* 1.0507e-8
    a14 |-> FDec(-20122, -14),    \* -2.0122e-10
    a20 |-> FDec(-39064, -11),    \* -3.9064e-7
    a21 |-> FDec(91041, -13),     \* 9.1041e-9
    a22 |-> FDec(-16002, -14),    \* -1.6002e-10
    a23 |-> FDec(7988, -15),      \* 7.988e-12
    a30 |-> FDec(11, -11),        \* 1.100e-10
    a31 |-> FDec(6649, -15),      \* 6.649e-12
    a32 |-> FDec(-3389, -16),     \* -3.389e-13
    b00 |-> FDec(-1922, -5),      \* -1.922e-2
    b01 |-> FDec(-442, -7),       \* -4.42e-5
    b10 |-> FDec(73637, -9),      \* 7.3637e-5
    b11 |-> FDec(17945, -11),     \* 1.7945e-7
    d00 |-> FDec(1727, -6),       \* 1.727e-3
    d10 |-> FDec(-79836, -10) ]   \* -7.9836e-6

sw_svel(S, T, P0) ==
  LET k  == svel_k
      P  == P0 (/) k.n10
      Cw == k.c00 (+) k.c01 (.) T (+) k.c02 (.) T (.) T (+) k.c03 (.) T (.) T (.) T
            (+) k.c04 (.) T (.) T (.) T (.) T (+) k.c05 (.) T (.) T (.) T (.) T (.) T
            (+) (k.c10 (+) k.c11 (.) T (+) k.c12 (.) T (.) T (+) k.c13 (.) T (.) T (.) T
                 (+) k.c14 (.) T (.) T (.) T (.) T) (.) P
            (+) (k.c20 (+) k.c21 (.) T (+) k.c22 (.) T (.) T (+) k.c23 (.) T (.) T (.) T
                 (+) k.c24 (.) T (.) T (.) T (.) T) (.) P (.) P
            (+) (k.c30 (+) k.c31 (.) T (+) k.c32 (.) T (.) T) (.) P (.) P (.) P
      A  == k.a00 (+) k.a01 (.) T (+) k.a02 (.) T (.) T (+) k.a03 (.) T (.) T (.) T
            (+) k.a04 (.) T (.) T (.) T (.) T
            (+) (k.a10 (+) k.a11 (.) T (+) k.a12 (.) T (.) T (+) k.a13 (.) T (.) T (.) T
                 (+) k.a14 (.) T (.) T (.) T (.) T) (.) P
            (+) (k.a20 (+) k.a21 (.) T (+) k.a22 (.) T (.) T (+) k.a23 (.) T (.) T (.) T) (.) P (.) P
            (+) (k.a30 (+) k.a31 (.) T (+) k.a32 (.) T (.) T) (.) P (.) P (.) P
      B  == k.b00 (+) k.b01 (.) T (+) (k.b10 (+) k.b11 (.) T) (.) P
      D  == k.d00 (+) k.d10 (.) P
  IN  Cw (+) A (.) S (+) B (.) S (.) FSqrt(S) (+) D (.) S (.) S

dpth_k ==
  [ c1       |-> FDec(972659, -5),   \* +9.72659
    c2       |-> FDec(-22512, -9),   \* -2.2512E-5
    c3       |-> FDec(2279, -13),    \* +2.279E-10
    c4       |-> FDec(-182, -17),    \* -1.82E-15
    gam_dash |-> FDec(2184, -9),     \* 2.184e-6
    n9_780318  |-> FDec(9780318, -6),
    n1         |-> FInt(1),
    n5_2788em3 |-> FDec(52788, -7),
    n2_36em5   |-> FDec(236, -7),
    n0_5       |-> FDec(5, -1) ]

\* math.Pi / 180: a constant expression, which the compiler evaluates exactly and
\* rounds once
DEG2RAD == FRoundDiv(FALSE, BigOfDec(Pi), BigMul(BigOfInt(180), BigPow10(26)), 0)

\* a variant that takes sin(LAT) where sin^2(|LAT|) is meant
sw_dpth_signed(P, LAT0) ==
  LET k        == dpth_k
      X        == Sin(LAT0 (.) DEG2RAD)
      bot_line == k.n9_780318 (.) (k.n1 (+) (k.n5_2788em3 (+) k.n2_36em5 (.) X) (.) X)
                  (+) (k.gam_dash (.) k.n0_5) (.) P
      top_line == (((k.c4 (.) P (+) k.c3) (.) P (+) k.c2) (.) P (+) k.c1) (.) P
  IN  top_line (/) bot_line

\* gam_dash*0.5 is a constant expression too; halving is exact, so rounding the
\* product is rounding gam_dash
sw_dpth(P, LAT0) ==
  LET k        == dpth_k
      LAT      == Abs(LAT0)
      X0       == Sin(LAT (.) DEG2RAD)
      X        == X0 (.) X0
      bot_line == k.n9_780318 (.) (k.n1 (+) (k.n5_2788em3 (+) k.n2_36em5 (.) X) (.) X)
                  (+) (k.gam_dash (.) k.n0_5) (.) P
      top_line == (((k.c4 (.) P (+) k.c3) (.) P (+) k.c2) (.) P (+) k.c1) (.) P
  IN  top_line (/) bot_line

adtg_k ==
  [ n35 |-> FInt(35),
    a0 |-> FDec(35803, -9),       \* 3.5803E-5
    a1 |-> FDec(85258, -10),      \* +8.5258E-6
    a2 |-> FDec(-6836, -11),      \* -6.836E-8
    a3 |-> FDec(66228, -14),      \* 6.6228E-10
    b0 |-> FDec(18932, -10),      \* +1.8932E-6
    b1 |-> FDec(-42393, -12),     \* -4.2393E-8
    c0 |-> FDec(18741, -12),      \* +1.8741E-8
    c1 |-> FDec(-67795, -14),     \* -6.7795E-10
    c2 |-> FDec(8733, -15),       \* +8.733E-12
    c3 |-> FDec(-54481, -18),     \* -5.4481E-14
    d0 |-> FDec(-11351, -14),     \* -1.1351E-10
    d1 |-> FDec(27759, -16),      \* 2.7759E-12
    e0 |-> FDec(-46206, -17),     \* -4.6206E-13
    e1 |-> FDec(18676, -18),      \* +1.8676E-14
    e2 |-> FDec(-21687, -20) ]    \* -2.1687E-16

sw_adtg(S, T, P) ==
  LET k == adtg_k
  IN  k.a0 (+) (k.a1 (+) (k.a2 (+) k.a3 (.) T) (.) T) (.) T
      (+) (k.b0 (+) k.b1 (.) T) (.) (S (-) k.n35)
      (+) ((k.c0 (+) (k.c1 (+) (k.c2 (+) k.c3 (.) T) (.) T) (.) T)
           (+) (k.d0 (+) k.d1 (.) T) (.) (S (-) k.n35)) (.) P
      (+) (k.e0 (+) (k.e1 (+) k.e2 (.) T) (.) T) (.) P (.) P

ptmp_k ==
  [ n0_5  |-> FDec(5, -1),
    n1    |-> FInt(1),
    n2    |-> FInt(2),
    n3    |-> FInt(3),
    n6    |-> FInt(6),
    nm2   |-> FInt(-2),
    sqrt2 |-> FSqrt(FInt(2)) ]      \* math.Sqrt(2)

\* a variant of stage 1 that leaves del_P out of del_th
ptmp_theta1_unscaled(S, T, P, PR) ==
  LET k      == ptmp_k
      del_P  == PR (-) P
      del_th == sw_adtg(S, T, P)
  IN  [ del_P |-> del_P, del_th |-> del_th,
        th    |-> T (+) k.n0_5 (.) del_th,
        q     |-> del_th,
        adtg  |-> <<S, T, P>> ]

\* a variant of stage 3 that evaluates the gradient at P + del_P
ptmp_theta3_full(S, P, l) ==
  LET k      == ptmp_k
      Pa     == P (+) l.del_P
      del_th == l.del_P (.) sw_adtg(S, l.th, Pa)
  IN  [ del_P |-> l.del_P, del_th |-> del_th,
        th    |-> l.th (+) (k.n1 (+) k.n1 (/) k.sqrt2) (.) (del_th (-) l.q),
        q     |-> (k.n2 (+) k.sqrt2) (.) del_th (+) (k.nm2 (-) k.n3 (/) k.sqrt2) (.) l.q,
        adtg  |-> <<S, l.th, Pa>> ]

(***************************************************************************)
(* sw_ptmp, stage by stage.  A stage yields the locals it leaves (del_P,   *)
(* del_th, th, q) and, as adtg, the arguments it calls sw_adtg with.       *)
(***************************************************************************)
ptmp_theta1(S, T, P, PR) ==
  LET k      == ptmp_k
      del_P  == PR (-) P
      del_th == del_P (.) sw_adtg(S, T, P)
  IN  [ del_P |-> del_P, del_th |-> del_th,
        th    |-> T (+) k.n0_5 (.) del_th,
        q     |-> del_th,
        adtg  |-> <<S, T, P>> ]

ptmp_theta2(S, P, l) ==
  LET k      == ptmp_k
      Pa     == P (+) k.n0_5 (.) l.del_P
      del_th == l.del_P (.) sw_adtg(S, l.th, Pa)
  IN  [ del_P |-> l.del_P, del_th |-> del_th,
        th    |-> l.th (+) (k.n1 (-) k.n1 (/) k.sqrt2) (.) (del_th (-) l.q),
        q     |-> (k.n2 (-) k.sqrt2) (.) del_th (+) (k.nm2 (+) k.n3 (/) k.sqrt2) (.) l.q,
        adtg  |-> <<S, l.th, Pa>> ]

ptmp_theta3(S, P, l) ==
  LET k      == ptmp_k
      Pa     == P (+) k.n0_5 (.) l.del_P
      del_th == l.del_P (.) sw_adtg(S, l.th, Pa)
  IN  [ del_P |-> l.del_P, del_th |-> del_th,
        th    |-> l.th (+) (k.n1 (+) k.n1 (/) k.sqrt2) (.) (del_th (-) l.q),
        q     |-> (k.n2 (+) k.sqrt2) (.) del_th (+) (k.nm2 (-) k.n3 (/) k.sqrt2) (.) l.q,
        adtg  |-> <<S, l.th, Pa>> ]

\* the last stage leaves th and q alone; PT is the result
ptmp_theta4(S, P, l) ==
  LET k      == ptmp_k
      Pa     == P (+) l.del_P
      del_th == l.del_P (.) sw_adtg(S, l.th, Pa)
  IN  [ del_P |-> l.del_P, del_th |-> del_th, th |-> l.th, q |-> l.q,
        adtg  |-> <<S, l.th, Pa>>,
        PT    |-> l.th (+) (del_th (-) k.n2 (.) l.q) (/) k.n6 ]

sw_ptmp(S, T, P, PR) ==
  ptmp_theta4(S, P, ptmp_theta3(S, P, ptmp_theta2(S, P, ptmp_theta1(S, T, P, PR)))).PT

dens_k ==
  [ n0    |-> FZero(FALSE),
    n1    |-> FInt(1),
    n10   |-> FInt(10),
    n35   |-> FInt(35),
    n1000 |-> FInt(1000) ]

\* a variant with the ratio upside down: 1 - K/P
sw_dens_inverted(S, T, P0) ==
  LET k      == dens_k
      densP0 == sw_dens0(S, T)
      K      == sw_seck(S, T, P0)
      P      == P0 (/) k.n10
  IN  densP0 (/) (k.n1 (-) K (/) P)

sw_dens(S, T, P0) ==
  LET k      == dens_k
      densP0 == sw_dens0(S, T)
      K      == sw_seck(S, T, P0)
      P      == P0 (/) k.n10
  IN  densP0 (/) (k.n1 (-) P (/) K)

\* a variant that takes the density at the pressure P
sw_sigmat_insitu(S, T, P) == sw_dens(S, T, P) (-) dens_k.n1000

sw_sigmat(S, T, P) == sw_dens(S, T, dens_k.n0) (-) dens_k.n1000

sw_sigmateta(S, T, P) ==
  sw_dens(S, sw_ptmp(S, T, P, dens_k.n0), dens_k.n0) (-) dens_k.n1000

\* a variant whose reference water is at the surface
sw_svan_surface(S, T, P) ==
  (dens_k.n1 (/) sw_dens(S, T, P)) (-) (dens_k.n1 (/) sw_dens(dens_k.n35, dens_k.n0, dens_k.n0))

sw_svan(S, T, P) ==
  (dens_k.n1 (/) sw_dens(S, T, P)) (-) (dens_k.n1 (/) sw_dens(dens_k.n35, dens_k.n0, P))

sal_k ==
  [ A1 |-> FDec(207, -7),         \* 2.070E-5
    A2 |-> FDec(-637, -12),       \* -6.370E-10
    A3 |-> FDec(3989, -18),       \* 3.989E-15
    B1 |-> FDec(3426, -5),        \* 3.426E-2
    B2 |-> FDec(4464, -7),        \* 4.464E-4
    B3 |-> FDec(4215, -4),        \* 4.215E-1
    B4 |-> FDec(-3107, -6),       \* -3.107E-3
    C0 |-> FDec(6766097, -7),     \* 6.766097E-1
    C1 |-> FDec(200564, -7),      \* 2.00564E-2
    C2 |-> FDec(1104259, -10),    \* 1.104259E-4
    C3 |-> FDec(-69698, -11),     \* -6.9698E-7
    C4 |-> FDec(10031, -13),      \* 1.0031E-9
    a  |-> << FDec(80, -4), FDec(-1692, -4), FDec(253851, -4),
              FDec(140941, -4), FDec(-70261, -4), FDec(27081, -4) >>,
    b  |-> << FDec(5, -4), FDec(-56, -4), FDec(-66, -4),
              FDec(-375, -4), FDec(636, -4), FDec(-144, -4) >>,
    n0       |-> FZero(FALSE),
    n1       |-> FInt(1),
    n2       |-> FInt(2),
    n10      |-> FInt(10),
    n15      |-> FInt(15),
    n42_914  |-> FDec(42914, -3),
    n0_0162  |-> FDec(162, -4) ]

\* if C <= 0 { return 0 }
\* a variant that tests C < 0
sal_short_strict(C) == FLt(C, sal_k.n0)

sal_short(C) == FLe(C, sal_k.n0)

\* C = (C * 10) / 42.914
sal_rescale(C) == (C (.) sal_k.n10) (/) sal_k.n42_914

\* the two assignments to r; C is the rescaled conductivity
sal_ratio(C, T, P) ==
  LET k  == sal_k
      r0 == k.n1 (+) (P (.) (k.A1 (+) P (.) (k.A2 (+) P (.) k.A3)))
                     (/) (k.n1 (+) k.B1 (.) T (+) k.B2 (.) T (.) T (+) k.B3 (.) C (+) k.B4 (.) C (.) T)
  IN  C (/) (r0 (.) (k.C0 (+) T (.) (k.C1 (+) T (.) (k.C2 (+) T (.) (k.C3 (+) T (.) k.C4)))))

\* one pass of the loop over a: i counts from 0
sal_term(r, i, sums) ==
  LET t == Pow(r, FInt(i) (/) sal_k.n2)
  IN  [ sum1 |-> sums.sum1 (+) sal_k.a[i + 1] (.) t,
        sum2 |-> sums.sum2 (+) sal_k.b[i + 1] (.) t ]

RECURSIVE sal_sums(_, _)
sal_sums(r, n) ==
  IF n = 0 THEN [sum1 |-> sal_k.n0, sum2 |-> sal_k.n0]
  ELSE sal_term(r, n - 1, sal_sums(r, n - 1))

\* T -= 15; return (sum1 + sum2*T/(1+0.0162*T))
sal_result(sums, T0) ==
  LET k == sal_k
      T == T0 (-) k.n15
  IN  sums.sum1 (+) (sums.sum2 (.) T) (/) (k.n1 (+) k.n0_0162 (.) T)

sw_sal(C, T, P) ==
  IF sal_short(C) THEN sal_k.n0
  ELSE sal_result(sal_sums(sal_ratio(sal_rescale(C), T, P), Len(sal_k.a)), T)

(***************************************************************************)
(* The caller.  The package keeps no state: a caller calls one function    *)
(* with scalar arguments, takes the value it returns, and calls again.     *)
(* The arguments are drawn from the samples below, the first Num.. of each *)
(* list: the fixtures of the package's tests and the edges of the ranges.  *)
(***************************************************************************)
NumS == 2

NumT == 3

NumP == 2

NumC == 3

NumLat == 3

NumScale == 3

SampleS == << FInt(35), FDec(3467, -2), FZero(FALSE), FInt(42) >>

SampleT == << FZero(FALSE), FDec(15998, -3), FInt(30), FDec(248, -2), FInt(-2) >>

SampleP == << FZero(FALSE), FInt(10035), FInt(27), FInt(71) >>

SampleC == << FDec(5538891, -6), FZero(FALSE), FInt(-1), FDec(4705818, -6), FZero(TRUE) >>

SampleLat == << FInt(4), FInt(-30), FZero(FALSE), FInt(90), FInt(-45) >>

SampleScale == << "T68", "T48", "T90", "t68", "" >>

SetS == { SampleS[n] : n \in 1..NumS }

SetT == { SampleT[n] : n \in 1..NumT }

SetP == { SampleP[n] : n \in 1..NumP }

SetC == { SampleC[n] : n \in 1..NumC }

SetLat == { SampleLat[n] : n \in 1..NumLat }

SetScale == { SampleScale[n] : n \in 1..NumScale }

(***************************************************************************)
(* fn    the function being executed, "none" between calls                 *)
(* pc    "idle" between calls, "done" when the function has returned, and  *)
(*       a position inside sw_ptmp or sw_sal                               *)
(* args  the arguments of the call                                         *)
(* loc   the function's local variables, where the model steps through it  *)
(* hist  what the call has done so far: for sw_ptmp the locals each stage  *)
(*       left and the arguments of its sw_adtg call; for sw_sal the        *)
(*       computations performed                                            *)
(* ret   what the caller receives: the float64 result.  No function of the *)
(*       package has an error result, so error is always ""                *)
(* from  when the argument of the call is the result of the call before,   *)
(*       that call                                                         *)
(***************************************************************************)
VARIABLES fn, pc, args, loc, hist, ret, from

vars == <<fn, pc, args, loc, hist, ret, from>>

NoRet == [value |-> [cls |-> "none"], error |-> ""]

NoCall == [fn |-> "none", args |-> <<>>]

Returns(v) == [value |-> v, error |-> ""]

Init ==
  /\ fn = "none" /\ pc = "idle" /\ args = <<>> /\ loc = <<>> /\ hist = <<>>
  /\ ret = NoRet /\ from = NoCall

\* a call of a function that the model takes in one step
Call(f, a, v) ==
  /\ pc = "idle"
  /\ fn' = f /\ args' = a /\ ret' = Returns(v) /\ pc' = "done"
  /\ UNCHANGED <<loc, hist, from>>

Call_smow == \E T \in SetT : Call("sw_smow", [T |-> T], sw_smow(T))

Call_T68conv == \E T \in SetT : Call("sw_T68conv", [T90 |-> T], sw_T68conv(T))

\* sw_T90conv: the error it constructs in its last branch is kept in loc
T90conv(a, e, v) ==
  /\ fn' = "sw_T90conv" /\ args' = a /\ loc' = [err |-> e]
  /\ ret' = Returns(v) /\ pc' = "done"
  /\ UNCHANGED hist

T90conv_call(a, e, v) == pc = "idle" /\ T90conv(a, e, v) /\ UNCHANGED from

Call_T90conv ==
  \E T \in SetT, sc \in SetScale :
    T90conv_call([t |-> T, t_type |-> sc], T90conv_error(sc), sw_T90conv(T, sc))

\* the caller converts back the temperature T68 that sw_T68conv(T90) has just
\* returned
T90conv_back(T90, T68, e, v) ==
  /\ pc = "done" /\ fn = "sw_T68conv" /\ args = [T90 |-> T90] /\ ret = Returns(T68)
  /\ T90conv([t |-> T68, t_type |-> "T68"], e, v)
  /\ from' = [fn |-> "sw_T68conv", args |-> [T90 |-> T90]]

Call_T90conv_of_T68conv ==
  \E T \in SetT :
    T90conv_back(T, sw_T68conv(T), T90conv_error("T68"), sw_T90conv(sw_T68conv(T), "T68"))

Call_dens0 == \E S \in SetS, T \in SetT : Call("sw_dens0", [S |-> S, T |-> T], sw_dens0(S, T))

Call_seck ==
  \E S \in SetS, T \in SetT, P \in SetP :
    Call("sw_seck", [S |-> S, T |-> T, P |-> P], sw_seck(S, T, P))

Call_svel ==
  \E S \in SetS, T \in SetT, P \in SetP :
    Call("sw_svel", [S |-> S, T |-> T, P |-> P], sw_svel(S, T, P))

Call_dpth ==
  \E P \in SetP, LAT \in SetLat :
    Call("sw_dpth", [P |-> P, LAT |-> LAT], sw_dpth(P, LAT))

Call_adtg ==
  \E S \in SetS, T \in SetT, P \in SetP :
    Call("sw_adtg", [S |-> S, T |-> T, P |-> P], sw_adtg(S, T, P))

Call_dens ==
  \E S \in SetS, T \in SetT, P \in SetP :
    Call("sw_dens", [S |-> S, T |-> T, P |-> P], sw_dens(S, T, P))

Call_sigmat ==
  \E S \in SetS, T \in SetT, P \in SetP :
    Call("sw_sigmat", [S |-> S, T |-> T, P |-> P], sw_sigmat(S, T, P))

Call_sigmateta ==
  \E S \in SetS, T \in SetT, P \in SetP :
    Call("sw_sigmateta", [S |-> S, T |-> T, P |-> P], sw_sigmateta(S, T, P))

Call_svan ==
  \E S \in SetS, T \in SetT, P \in SetP :
    Call("sw_svan", [S |-> S, T |-> T, P |-> P], sw_svan(S, T, P))

(***************************************************************************)
(* sw_ptmp and sw_sal are taken one statement at a time.  A statement      *)
(* reads the arguments and the locals, and an action is written for every  *)
(* value they can hold at that point: the values are those the statements  *)
(* before it produce from the sampled arguments.                           *)
(***************************************************************************)
\* a statement: with arguments a and locals l, it leaves the locals `locals`
Step(f, at, a, l, locals, did, next) ==
  /\ fn = f /\ pc = at /\ args = a /\ loc = l
  /\ loc' = locals /\ hist' = Append(hist, did) /\ pc' = next
  /\ UNCHANGED <<fn, args, ret, from>>

\* a return statement
Return(f, at, a, l, v) ==
  /\ fn = f /\ pc = at /\ args = a /\ loc = l
  /\ ret' = Returns(v) /\ pc' = "done"
  /\ UNCHANGED <<fn, args, loc, hist, from>>

(***************************************************************************)
(* sw_ptmp, one stage at a time; hist keeps what each stage left.          *)
(***************************************************************************)
ptmp_Calls ==
  { [S |-> S, T |-> T, P |-> P, PR |-> PR] : S \in SetS, T \in SetT, P \in SetP, PR \in SetP }

\* the arguments and the locals after stages 1, 2 and 3
ptmp_After1 ==
  { [call |-> a, locals |-> ptmp_theta1(a.S, a.T, a.P, a.PR)] : a \in ptmp_Calls }

ptmp_After2 ==
  { [call |-> c.call, locals |-> ptmp_theta2(c.call.S, c.call.P, c.locals)] : c \in ptmp_After1 }

ptmp_After3 ==
  { [call |-> c.call, locals |-> ptmp_theta3(c.call.S, c.call.P, c.locals)] : c \in ptmp_After2 }

ptmp_Enter(a) ==
  /\ pc = "idle"
  /\ fn' = "sw_ptmp" /\ args' = a /\ pc' = "theta1"
  /\ UNCHANGED <<loc, hist, ret, from>>

Call_ptmp == \E a \in ptmp_Calls : ptmp_Enter(a)

ptmp_Stage(at, a, l, stage, next) == Step("sw_ptmp", at, a, l, stage, stage, next)

ptmp_Stage1 ==
  \E a \in ptmp_Calls :
    ptmp_Stage("theta1", a, <<>>, ptmp_theta1(a.S, a.T, a.P, a.PR), "theta2")

ptmp_Stage2 ==
  \E c \in ptmp_After1 :
    ptmp_Stage("theta2", c.call, c.locals, ptmp_theta2(c.call.S, c.call.P, c.locals), "theta3")

ptmp_Stage3 ==
  \E c \in ptmp_After2 :
    ptmp_Stage("theta3", c.call, c.locals, ptmp_theta3(c.call.S, c.call.P, c.locals), "theta4")

\* the last stage computes PT and returns it
ptmp_Last(a, l, stage) ==
  /\ fn = "sw_ptmp" /\ pc = "theta4" /\ args = a /\ loc = l
  /\ loc' = stage /\ hist' = Append(hist, stage)
  /\ ret' = Returns(stage.PT) /\ pc' = "done"
  /\ UNCHANGED <<fn, args, from>>

ptmp_Stage4 ==
  \E c \in ptmp_After3 :
    ptmp_Last(c.call, c.locals, ptmp_theta4(c.call.S, c.call.P, c.locals))

(***************************************************************************)
(* sw_sal, one statement at a time; hist keeps the computations performed. *)
(***************************************************************************)
sal_Calls == { [C |-> C, T |-> T, P |-> P] : C \in SetC, T \in SetT, P \in SetP }

\* the calls that go past the test of C, and their locals after the ratio
sal_Long == { a \in sal_Calls : ~sal_short(a.C) }

sal_AfterRatio ==
  { [ call |-> a,
      locals |-> [ C |-> sal_rescale(a.C),
                   r |-> sal_ratio(sal_rescale(a.C), a.T, a.P) ] ] : a \in sal_Long }

sal_Enter(a) ==
  /\ pc = "idle"
  /\ fn' = "sw_sal" /\ args' = a /\ loc' = [C |-> a.C] /\ pc' = "check"
  /\ UNCHANGED <<hist, ret, from>>

Call_sal == \E a \in sal_Calls : sal_Enter(a)

\* if C <= 0 { return 0 }
sal_Return0 ==
  \E a \in sal_Calls \ sal_Long : Return("sw_sal", "check", a, [C |-> a.C], sal_k.n0)

sal_Rescale ==
  \E a \in sal_Long :
    Step("sw_sal", "check", a, [C |-> a.C], [C |-> sal_rescale(a.C)], "rescale", "ratio")

sal_Ratio ==
  \E c \in sal_AfterRatio :
    Step("sw_sal", "ratio", c.call, [C |-> c.locals.C],
         [ C |-> c.locals.C, r |-> c.locals.r, i |-> 0, sums |-> sal_sums(c.locals.r, 0) ],
         "ratio", "series")

\* one pass of the loop: i < len(a)
sal_Series ==
  \E c \in sal_AfterRatio, n \in 0..(Len(sal_k.a) - 1) :
    Step("sw_sal", "series", c.call,
         [ C |-> c.locals.C, r |-> c.locals.r, i |-> n, sums |-> sal_sums(c.locals.r, n) ],
         [ C |-> c.locals.C, r |-> c.locals.r, i |-> n + 1,
           sums |-> sal_term(c.locals.r, n, sal_sums(c.locals.r, n)) ],
         "series", "series")

\* the loop has ended
sal_Return ==
  \E c \in sal_AfterRatio :
    Return("sw_sal", "series", c.call,
           [ C |-> c.locals.C, r |-> c.locals.r, i |-> Len(sal_k.a),
             sums |-> sal_sums(c.locals.r, Len(sal_k.a)) ],
           sal_result(sal_sums(c.locals.r, Len(sal_k.a)), c.call.T))

\* the caller takes the result; nothing of the call remains
Resume ==
  /\ pc = "done"
  /\ fn' = "none" /\ pc' = "idle" /\ args' = <<>> /\ loc' = <<>> /\ hist' = <<>>
  /\ ret' = NoRet /\ from' = NoCall

Next ==
  \/ Call_smow \/ Call_T68conv \/ Call_T90conv \/ Call_T90conv_of_T68conv
  \/ Call_dens0 \/ Call_seck \/ Call_svel \/ Call_dpth \/ Call_adtg
  \/ Call_dens \/ Call_sigmat \/ Call_sigmateta \/ Call_svan
  \/ Call_ptmp \/ ptmp_Stage1 \/ ptmp_Stage2 \/ ptmp_Stage3 \/ ptmp_Stage4
  \/ Call_sal \/ sal_Return0 \/ sal_Rescale \/ sal_Ratio \/ sal_Series \/ sal_Return
  \/ Resume

Spec == Init /\ [][Next]_vars

(***************************************************************************)
(* The properties.                                                         *)
(***************************************************************************)
Returned(f) == fn = f /\ pc = "done"

\* C1: sw_sal returns exactly 0 for every C <= 0, and has then performed no
\* rescaling, ratio or series computation; for C > 0 it never returns from the
\* test of C: it rescales first, and when it returns it has done the rescaling,
\* the ratio and the six passes of the series.
C1_ShortCircuit ==
  fn = "sw_sal" /\ pc # "check" =>
    IF FLe(args.C, FZero(FALSE))
    THEN pc = "done" /\ ret.value = FZero(FALSE) /\ hist = <<>>
    ELSE /\ hist # <<>> /\ hist[1] = "rescale"
         /\ pc = "done" =>
              hist = << "rescale", "ratio", "series", "series", "series",
                        "series", "series", "series" >>

C1_Witness == Returned("sw_sal") /\ FLe(args.C, FZero(FALSE)) /\ ~IsZero(args.T)

\* C2: sw_ptmp with PR = P returns exactly T: del_P is 0, every stage's del_th
\* is 0, q stays 0 and th stays T through all four stages.
C2_ReferenceAtPressure ==
  fn = "sw_ptmp" /\ args.PR = args.P =>
    /\ \A n \in 1..Len(hist) :
         /\ IsZero(hist[n].del_P) /\ IsZero(hist[n].del_th) /\ IsZero(hist[n].q)
         /\ hist[n].th = args.T
    /\ pc = "done" => Len(hist) = 4 /\ ret.value = args.T

C2_Witness ==
  Returned("sw_ptmp") /\ args.PR = args.P /\ ~IsZero(args.P) /\ ~IsZero(args.T)

\* C3: a call of sw_T90conv with a scale other than "T68" and "T48" surfaces an
\* error to its caller.
C3_ErrorSurfaced ==
  Returned("sw_T90conv") /\ args.t_type \notin {"T68", "T48"} => ret.error # ""

\* C4: for S >= 0, when sw_seck(S, T, 0) is not zero, sw_dens(S, T, 0) is
\* exactly sw_dens0(S, T).
C4_DensityAtSurface ==
  ( /\ Returned("sw_dens") /\ IsZero(args.P) /\ FLe(FZero(FALSE), args.S)
    /\ ~IsZero(sw_seck(args.S, args.T, args.P)) )
  => ret.value = sw_dens0(args.S, args.T)

C4_Witness ==
  /\ Returned("sw_dens") /\ IsZero(args.P) /\ FLt(FZero(FALSE), args.S)
  /\ ~IsZero(sw_seck(args.S, args.T, args.P))

\* C5: sw_sigmat(S, T, P) is sw_dens(S, T, 0) - 1000, and is the same at every
\* pressure.
C5_SigmatIgnoresPressure ==
  Returned("sw_sigmat") =>
    /\ ret.value = sw_dens(args.S, args.T, FZero(FALSE)) (-) FInt(1000)
    /\ \A P \in SetP : sw_sigmat(args.S, args.T, P) = ret.value

C5_Witness == Returned("sw_sigmat") /\ ~IsZero(args.P)

\* C6: sw_dpth(P, LAT) is sw_dpth(P, -LAT).
C6_DepthEvenInLatitude ==
  Returned("sw_dpth") => ret.value = sw_dpth(args.P, FNeg(args.LAT))

C6_Witness == Returned("sw_dpth") /\ ~IsZero(args.LAT) /\ ~IsZero(args.P)

\* C7: sw_T90conv(sw_T68conv(T), "T68") is T within rounding: it differs from
\* T by at most 2^-52 |T|, which is less than two units in the last place of
\* T and is what one rounded multiplication and one rounded division allow.
C7_RoundTrip ==
  Returned("sw_T90conv") /\ from.fn = "sw_T68conv" =>
    /\ args = [t |-> sw_T68conv(from.args.T90), t_type |-> "T68"]
    /\ FLe(FAbs(ret.value (-) from.args.T90),
           FAbs(from.args.T90) (.) FRound(FALSE, BigOfInt(1), -52, FALSE))

\* the round trip of a T that it does not give back exactly
C7_Witness ==
  Returned("sw_T90conv") /\ from.fn = "sw_T68conv" /\ ret.value # from.args.T90

\* C8: sw_ptmp runs its four stages in order and returns.  del_P is PR - P at
\* every stage; stage n calls sw_adtg once, at (S, T, P), (S, th1, P + 0.5 del_P),
\* (S, th2, P + 0.5 del_P), (S, th3, P + del_P), where th is the one the stage
\* before left; the result is th3 + (del_th4 - 2 q3) / 6.
C8_StageAt(n) ==
  << args.S,
     IF n = 1 THEN args.T ELSE hist[n - 1].th,
     CASE n = 1 -> args.P
       [] n = 2 -> args.P (+) (FDec(5, -1) (.) (args.PR (-) args.P))
       [] n = 3 -> args.P (+) (FDec(5, -1) (.) (args.PR (-) args.P))
       [] n = 4 -> args.P (+) (args.PR (-) args.P) >>

C8_Stages ==
  fn = "sw_ptmp" =>
    /\ Len(hist) = ( CASE pc = "theta1" -> 0 [] pc = "theta2" -> 1 [] pc = "theta3" -> 2
                       [] pc = "theta4" -> 3 [] pc = "done" -> 4 )
    /\ \A n \in 1..Len(hist) :
         /\ hist[n].del_P = args.PR (-) args.P
         /\ hist[n].adtg = C8_StageAt(n)
         /\ hist[n].del_th =
              hist[n].del_P (.) sw_adtg(hist[n].adtg[1], hist[n].adtg[2], hist[n].adtg[3])
    /\ pc = "done" =>
         ret.value = hist[3].th (+)
                       ((hist[4].del_th (-) (FInt(2) (.) hist[3].q)) (/) FInt(6))

C8_Order ==
  fn = "sw_ptmp" /\ pc # "done" =>
    /\ fn' = fn /\ args' = args
    /\ pc' = ( CASE pc = "theta1" -> "theta2" [] pc = "theta2" -> "theta3"
                 [] pc = "theta3" -> "theta4" [] pc = "theta4" -> "done" )
    /\ Len(hist') = Len(hist) + 1 /\ SubSeq(hist', 1, Len(hist)) = hist
    /\ pc' = "done" <=> ret'.value.cls # "none"

C8_FourStages == []C8_Stages /\ [][C8_Order]_vars

C8_Witness == Returned("sw_ptmp") /\ args.PR # args.P /\ ~IsZero(hist[4].del_th)

\* C9: with a scale other than "T68" and "T48", sw_T90conv returns exactly 0,
\* whatever t is (so not t, unless t is 0); it has constructed an error value
\* and its caller receives none.
C9_UnknownScaleGivesZero ==
  Returned("sw_T90conv") /\ args.t_type \notin {"T68", "T48"} =>
    /\ ret.value = FZero(FALSE)
    /\ ~IsZero(args.t) => ret.value # args.t
    /\ loc.err # "" /\ ret.error = ""

C9_Witness ==
  Returned("sw_T90conv") /\ args.t_type \notin {"T68", "T48"} /\ ~IsZero(args.t)

\* C10: sw_svan(35, 0, P) is exactly 0 at every P where sw_dens(35, 0, P) is
\* finite and not zero.
C10_ReferenceWater ==
  ( /\ Returned("sw_svan") /\ args.S = FInt(35) /\ IsZero(args.T)
    /\ IsFinite(sw_dens(FInt(35), FZero(FALSE), args.P))
    /\ ~IsZero(sw_dens(FInt(35), FZero(FALSE), args.P)) )
  => ret.value = FZero(FALSE)

C10_Witness ==
  /\ Returned("sw_svan") /\ args.S = FInt(35) /\ IsZero(args.T) /\ ~IsZero(args.P)
  /\ IsFinite(sw_dens(FInt(35), FZero(FALSE), args.P))

====
